---- MODULE Spec2Model ----
(***************************************************************************)
(* Model of src/main.py: a command-line tool that scaffolds a data-science *)
(* project directory (create path) or removes one (cleanup path).          *)
(*                                                                         *)
(* The state is the part of the filesystem the tool touches (the project   *)
(* directory file_path/name and its top-level entries), the arguments and  *)
(* position of the run in progress, and a record of the external commands  *)
(* the run issued.  A behaviour is a sequence of runs of the tool on the   *)
(* same (file_path, name).                                                 *)
(*                                                                         *)
(* Filesystem operations fail only for structural reasons (missing parent, *)
(* wrong kind of entry, non-empty directory); permissions, a full disk and *)
(* missing executables are outside the model.                              *)
(***************************************************************************)
EXTENDS Naturals, Sequences, FiniteSets

VARIABLES
    name,       \* --name, a sequence of characters
    fpExists,   \* whether --file_path exists on the filesystem
    target,     \* file_path/name: "absent", "noparent", "file" or "dir"
    entries,    \* top-level entries of the target: name -> "none" | "file" | "dir"
    nested,     \* the sub-folders that hold content the tool did not write
    content,    \* contents of the files the Scaffold Writer writes
    cwd,        \* working directory of the running process: "start" | "target"
    pc,         \* position of the run: "idle", a step of main, or "end"
    args,       \* parsed arguments of the run
    pre,        \* the filesystem as it was when the run started
    steps,      \* the steps of main the run has executed, in order
    cmds,       \* the external commands the run has issued, in order
    failed,     \* the subprocess calls of the run that exited non-zero
    outcome,    \* "none" while running, then "done" or "error"
    err,        \* the exception that ended the run, "" if none
    prev,       \* the previous run: its arguments, its outcome, the target before it
    runs        \* number of runs started

vars == <<name, fpExists, target, entries, nested, content, cwd, pc, args,
          pre, steps, cmds, failed, outcome, err, prev, runs>>

\* ---------------------------------------------------------------- bounds
MaxRuns == 2        \* runs of the tool in one behaviour
MaxPre == 1         \* entries present in the target before the first run
MaxNameLen == 1     \* characters in --name (SpecName)

\* ------------------------------------------------------------- constants
PACKAGES == <<"numpy", "pandas", "openpyxl", "scikit-learn", "matplotlib",
              "seaborn", "notebook">>

ignore_file_types == <<"*.txt", "*.csv", "*.xlsx", "*.xls",
                       "*.ipynb_checkpoints", "*.vscode", ".git">>

bad_syntax == {",", ".", "/", "\\", "\n", "\t", "?"}

folders_to_remove_no_data == <<".venv", ".git">>

folders_to_remove == <<".venv", "data", ".git">>

files_to_remove_no_requirements == <<"solution.py", "solution.ipynb", ".gitignore",
                                     ".DS_Store">>

files_to_remove == <<"solution.py", "solution.ipynb", "requirements.txt",
                     ".gitignore", ".DS_Store">>

project_type_choices == {"jupyter-notebook", "python"}

\* Python values of the optional arguments
PyNone == "<None>"
PyFalse == "<False>"
PyTrue == "<True>"

\* Names of the entries the model tracks in the target: the ones the tool
\* reads or writes, and one it knows nothing about.
EntryNames == {".venv", "data", ".git", "solution.py", "solution.ipynb",
               "requirements.txt", ".gitignore", ".DS_Store", "notes.md"}

ContentFiles == {"requirements.txt", ".gitignore", "solution.py", "solution.ipynb"}

\* Characters a --name is drawn from: one harmless letter and the seven
\* characters validate_name looks for.
NameChars == {"a"} \cup bad_syntax

\* Contents of a file the tool did not write
UserContent == <<"<user content>">>

Range(s) == {s[i] : i \in 1..Len(s)}

\* ------------------------------------------------------- pure functions

\* sep.join(list): the elements with sep between them
RECURSIVE join(_, _)
join(sep, list) ==
    IF Len(list) = 0 THEN <<>>
    ELSE IF Len(list) = 1 THEN <<list[1]>>
    ELSE <<list[1], sep>> \o join(sep, Tail(list))

\* bool(x) of an argument value
Truthy(v) == v \notin {PyNone, PyFalse, ""}

\* verify_directory: returns the path iff it exists, raises otherwise
verify_directory(exists) ==
    IF exists THEN [raised |-> FALSE, value |-> "file_path"]
    ELSE [raised |-> TRUE, value |-> "ArgumentTypeError"]

\* validate_name: any(letter in bad_syntax); the failure branch RETURNS the
\* error object, it does not raise it
validate_name(fname) ==
    LET res == \E i \in 1..Len(fname) : fname[i] \in bad_syntax
    IN  IF res THEN [raised |-> FALSE, value |-> "ArgumentTypeError"]
        ELSE [raised |-> FALSE, value |-> PyNone]

\* the parser's handling of --name: required, action store, no type= checker,
\* so the string is stored as given and validate_name is never called
parse_name(fname) == [raised |-> FALSE, value |-> fname]

\* the parser's handling of --file_path: type=verify_directory
parse_file_path(exists) == verify_directory(exists)

\* the parser's handling of --git: type=bool on the given string, None if omitted
parse_git(raw) == IF raw = PyNone THEN PyNone
                  ELSE IF raw = "" THEN PyFalse ELSE PyTrue

\* os.path.exists of the target and of an entry in it
TargetExists(t) == t \in {"file", "dir"}
EntryExists(t, ents, e) == t = "dir" /\ ents[e] # "none"

\* ------------------------------------------------- filesystem primitives
\* Each returns the name of the exception it raises, "" when it succeeds.

\* shutil.rmtree(path) of an existing entry: removes a directory and all it
\* holds, raises on anything else
shutil_rmtree(kind) == IF kind = "dir" THEN "" ELSE "NotADirectoryError"

os_remove_any(kind) == ""

\* os.remove(path) of an existing entry: removes a file, raises on a directory
os_remove(kind) == IF kind = "file" THEN "" ELSE "IsADirectoryError"

os_rmdir_recursive(t, ents) == IF t # "dir" THEN "NotADirectoryError" ELSE ""

\* os.rmdir(file_path): removes an empty directory only
os_rmdir(t, ents) ==
    IF t # "dir" THEN "NotADirectoryError"
    ELSE IF \E e \in DOMAIN ents : ents[e] # "none" THEN "OSError(ENOTEMPTY)"
    ELSE ""

\* open(path, 'w'): raises on a directory, creates or truncates otherwise
open_w(kind) == IF kind = "dir" THEN "IsADirectoryError" ELSE ""

write_a(old, new) == old \o new

\* file.write on a file opened with 'w': the old contents are gone
write_w(old, new) == new

subprocess_run_check(returncode) ==
    IF returncode = 0 THEN "" ELSE "CalledProcessError"

\* subprocess.run(cmd) without check=True: the exit code is not looked at
subprocess_run(returncode) == ""

\* --------------------------------------------------------- safe_delete
NoEntries == [e \in EntryNames |-> "none"]
NoContent == [f \in ContentFiles |-> <<>>]

\* first loop: for folder in folders_to_remove
RECURSIVE remove_folders(_, _)
remove_folders(fs, folders) ==
    IF Len(folders) = 0 \/ fs.err # "" THEN fs
    ELSE LET folder == Head(folders) IN
         IF ~EntryExists(fs.target, fs.entries, folder)
         THEN remove_folders(fs, Tail(folders))
         ELSE IF shutil_rmtree(fs.entries[folder]) = ""
         THEN remove_folders([fs EXCEPT !.entries[folder] = "none",
                                        !.nested = @ \ {folder}],
                             Tail(folders))
         ELSE [fs EXCEPT !.err = shutil_rmtree(fs.entries[folder])]

\* second loop: for file in files_to_remove
RECURSIVE remove_files(_, _)
remove_files(fs, files) ==
    IF Len(files) = 0 \/ fs.err # "" THEN fs
    ELSE LET file == Head(files) IN
         IF ~EntryExists(fs.target, fs.entries, file)
         THEN remove_files(fs, Tail(files))
         ELSE IF os_remove(fs.entries[file]) = ""
         THEN remove_files([fs EXCEPT !.entries[file] = "none",
                                      !.content = [f \in ContentFiles |->
                                                     IF f = file THEN <<>> ELSE @[f]]],
                           Tail(files))
         ELSE [fs EXCEPT !.err = os_remove(fs.entries[file])]

\* os.rmdir(file_path) at the end
remove_target(fs) ==
    IF fs.err # "" THEN fs
    ELSE IF os_rmdir(fs.target, fs.entries) = ""
    THEN [fs EXCEPT !.target = "absent"]
    ELSE [fs EXCEPT !.err = os_rmdir(fs.target, fs.entries)]

safe_delete(fs) ==
    remove_target(remove_files(remove_folders(fs, folders_to_remove),
                               files_to_remove))

\* the filesystem as one record
FS == [target |-> target, entries |-> entries, nested |-> nested,
       content |-> content, steps |-> steps, err |-> ""]

\* ------------------------------------------------------------- contents
requirements_text == join("\n", PACKAGES)
gitignore_text == join("\n", ignore_file_types)

\* nbf.write of a notebook of two cells, a markdown cell then a code cell
notebook_text == <<"markdown", "# Solution Notebook",
                   "code", "import numpy as np", "\n", "import pandas as pd">>

script_text == <<"import pandas as pd", "\n", "import numpy as np">>

\* ------------------------------------------------------- main: dispatch
cleanup_branch_exists(cleanup, exists) ==
    IF Truthy(cleanup) /\ exists THEN "safe_delete" ELSE "create"

\* line 89: `if cleanup and verify_directory(full_fpath)`; `and` evaluates
\* its right side only when cleanup is truthy
cleanup_branch(cleanup, exists) ==
    IF ~Truthy(cleanup) THEN "create"
    ELSE IF verify_directory(exists).raised THEN "raise"
    ELSE "safe_delete"

\* lines 110-119: the shell command line the run issues, by os.name
install_commands(os) ==
    IF os = "nt" THEN <<"activate", "pip install PACKAGES">>
    ELSE IF os = "posix"
    THEN <<"source activate", "pip install --upgrade pip", "pip install PACKAGES">>
    ELSE <<>>

OSNames == {"nt", "posix", "java"}

\* ---------------------------------------------------------------- state
NoArgs == [project_type |-> PyNone, git |-> PyNone, cleanup |-> PyFalse]
Snapshot == [target |-> target, entries |-> entries, nested |-> nested,
             content |-> content]
NoPrev == [started |-> FALSE, args |-> NoArgs, outcome |-> "none",
           pretarget |-> "absent"]

\* a name made of dots and slashes only (".", "..", "/", "./") resolves to a
\* directory that exists when file_path does
RECURSIVE Names(_)
Names(n) == IF n = 0 THEN {<<>>}
            ELSE Names(n - 1) \cup
                 {Append(w, c) : w \in {v \in Names(n - 1) : Len(v) = n - 1},
                                 c \in NameChars}

ResolvesToExisting(fname) ==
    /\ \A i \in 1..Len(fname) : fname[i] \in {".", "/"}
    /\ ~\E i \in 1..Len(fname) - 2 :
           fname[i] = "." /\ fname[i + 1] = "." /\ fname[i + 2] = "."

\* the target directories a first run can find: at most MaxPre entries, each a
\* file or a directory; a sub-folder may hold content of the user's
InitTargets(fname, exists) ==
    IF ~exists THEN {"noparent"}
    ELSE IF ResolvesToExisting(fname) THEN {"dir"}
    ELSE {"absent", "file", "dir"}

InitFS(names, maxpre) ==
    /\ name \in names
    /\ fpExists \in BOOLEAN
    /\ target \in InitTargets(name, fpExists)
    /\ \E S \in SUBSET EntryNames :
          /\ Cardinality(S) <= maxpre
          /\ target # "dir" => S = {}
          /\ entries \in {f \in [EntryNames -> {"none", "file", "dir"}] :
                            \A e \in EntryNames : f[e] # "none" <=> e \in S}
    /\ nested \in SUBSET {e \in Range(folders_to_remove) : entries[e] = "dir"}
    /\ content = [f \in ContentFiles |->
                    IF entries[f] = "file" THEN UserContent ELSE <<>>]
    /\ cwd = "start"
    /\ pc = "idle"
    /\ args = NoArgs
    /\ pre = Snapshot
    /\ steps = <<>>
    /\ cmds = <<>>
    /\ failed = {}
    /\ outcome = "none"
    /\ err = ""
    /\ prev = NoPrev
    /\ runs = 0

Init == InitFS({<<"a">>}, MaxPre)

InitName == InitFS(Names(MaxNameLen) \ {<<>>}, 0)

Raise(e) ==
    /\ pc' = "end"
    /\ outcome' = "error"
    /\ err' = e

\* ----------------------------------------------------------- the parser
\* lines 165-195: a new process parses its arguments
ParseArgs ==
    /\ pc \in {"idle", "end"}
    /\ runs < MaxRuns
    /\ runs' = runs + 1
    /\ prev' = IF pc = "end"
               THEN [started |-> TRUE, args |-> args, outcome |-> outcome,
                     pretarget |-> pre.target]
               ELSE prev
    /\ pre' = Snapshot
    /\ cwd' = "start"
    /\ steps' = <<>>
    /\ cmds' = <<>>
    /\ failed' = {}
    /\ \E p \in project_type_choices \cup {PyNone},
          g \in {PyNone, "1"},
          c \in {PyFalse, "True"} :
          args' = [project_type |-> p, git |-> parse_git(g), cleanup |-> c]
    /\ IF parse_file_path(fpExists).raised \/ parse_name(name).raised
       THEN Raise("argparse.error")
       ELSE pc' = "main" /\ outcome' = "none" /\ err' = ""
    /\ UNCHANGED <<name, fpExists, target, entries, nested, content>>

\* lines 88-91: the test that chooses between cleanup and create
Dispatch ==
    /\ pc = "main"
    /\ LET b == cleanup_branch(args.cleanup, TargetExists(target)) IN
          /\ steps' = IF Truthy(args.cleanup)
                      THEN Append(steps, "verify_directory") ELSE steps
          /\ IF b = "raise" THEN Raise(verify_directory(TargetExists(target)).value)
             ELSE /\ pc' = IF b = "safe_delete" THEN "safe_delete" ELSE "provision"
                  /\ UNCHANGED <<outcome, err>>
    /\ UNCHANGED <<name, fpExists, target, entries, nested, content, cwd, args,
                   pre, cmds, failed, prev, runs>>

\* lines 90-91 and 61-71: safe_delete(full_fpath), then return
SafeDelete ==
    /\ pc = "safe_delete"
    /\ LET r == safe_delete(FS) IN
          /\ target' = r.target
          /\ entries' = r.entries
          /\ nested' = r.nested
          /\ content' = r.content
          /\ pc' = "end"
          /\ outcome' = IF r.err = "" THEN "done" ELSE "error"
          /\ err' = r.err
    /\ steps' = Append(steps, "safe_delete")
    /\ UNCHANGED <<name, fpExists, cwd, args, pre, cmds, failed, prev, runs>>

\* ---------------------------------------------------------- create path
\* what python -m venv .venv can do to an entry named .venv: it fails when
\* .venv is a file, and a failing run may leave a .venv directory behind
venv_outcomes(kind) ==
    {[returncode |-> 0, kind |-> "dir"] : x \in {kind} \ {"file"}}
    \cup {[returncode |-> 1, kind |-> kind]}
    \cup {[returncode |-> 1, kind |-> "dir"] : x \in {kind} \cap {"none"}}

\* lines 95-120, the Environment Provisioner: create the target if missing,
\* chdir into it, create the environment, then one shell command line chosen
\* by os.name, which installs into .venv and leaves the top level alone
EnvironmentProvisioner ==
    /\ pc = "provision"
    /\ IF target = "noparent"
       THEN /\ Raise("FileNotFoundError")
            /\ steps' = Append(steps, "mkdir")
            /\ UNCHANGED <<target, entries, cwd, cmds, failed>>
       ELSE IF target = "file"
       THEN /\ Raise("NotADirectoryError")
            /\ steps' = Append(steps, "chdir")
            /\ UNCHANGED <<target, entries, cwd, cmds, failed>>
       ELSE \E v \in venv_outcomes(entries[".venv"]), os \in OSNames,
               returncode \in {0, 1} :
            LET venv_err == subprocess_run(v.returncode)
                issued == install_commands(os)
                install_rc == IF Len(issued) = 0 THEN 0 ELSE returncode
                install_err == subprocess_run(install_rc)
                venv_failed == IF v.returncode = 0 THEN {} ELSE {"venv"}
                install_failed == IF install_rc = 0 THEN {} ELSE {"install"}
                so_far == steps \o (IF target = "absent" THEN <<"mkdir">> ELSE <<>>)
                                \o <<"chdir", "venv">>
            IN  /\ target' = "dir"
                /\ cwd' = "target"
                /\ entries' = [entries EXCEPT ![".venv"] = v.kind]
                /\ IF venv_err # ""
                   THEN /\ Raise(venv_err)
                        /\ steps' = so_far
                        /\ cmds' = Append(cmds, "python -m venv .venv")
                        /\ failed' = failed \cup venv_failed
                   ELSE /\ steps' = Append(so_far, "install")
                        /\ cmds' = Append(cmds, "python -m venv .venv") \o issued
                        /\ failed' = failed \cup venv_failed \cup install_failed
                        /\ IF install_err # "" /\ Len(issued) > 0
                           THEN Raise(install_err)
                           ELSE pc' = "git" /\ UNCHANGED <<outcome, err>>
    /\ UNCHANGED <<name, fpExists, nested, content, args, pre, prev, runs>>

\* lines 123-125, the Version-Control Initializer: git init when --git is truthy
VersionControlInitializer ==
    /\ pc = "git"
    /\ IF Truthy(args.git)
       THEN /\ steps' = Append(steps, "git")
            /\ cmds' = Append(cmds, "git init")
            /\ \E returncode \in {0, 1} :
                  /\ entries' = IF returncode = 0 /\ entries[".git"] = "none"
                                THEN [entries EXCEPT ![".git"] = "dir"]
                                ELSE entries
                  /\ failed' = IF returncode = 0 THEN failed
                               ELSE failed \cup {"git"}
                  /\ IF subprocess_run(returncode) # ""
                     THEN Raise(subprocess_run(returncode))
                     ELSE pc' = "scaffold" /\ UNCHANGED <<outcome, err>>
       ELSE /\ pc' = "scaffold"
            /\ UNCHANGED <<steps, cmds, entries, failed, outcome, err>>
    /\ UNCHANGED <<name, fpExists, target, nested, content, cwd, args, pre,
                   prev, runs>>

\* lines 130-131: os.mkdir('./data') unless something named data exists
make_data(fs) ==
    [fs EXCEPT !.entries["data"] = IF EntryExists(fs.target, fs.entries, "data")
                                   THEN @ ELSE "dir",
               !.steps = Append(@, "data")]

\* with open(path, 'w') as file: file.write(text)
write_file(fs, path, text) ==
    IF fs.err # "" THEN fs
    ELSE IF open_w(fs.entries[path]) # ""
    THEN [fs EXCEPT !.err = open_w(fs.entries[path])]
    ELSE [fs EXCEPT !.entries[path] = "file",
                    !.content[path] = write_w(@, text),
                    !.steps = Append(@, path)]

\* lines 142-155: the stub project_type selects, none when it is None
stub_file(project_type) ==
    IF project_type = "jupyter-notebook" THEN "solution.ipynb"
    ELSE IF project_type = "python" THEN "solution.py"
    ELSE PyNone

stub_text(project_type) ==
    IF project_type = "jupyter-notebook" THEN notebook_text ELSE script_text

\* lines 130-155
scaffold_writer(fs, project_type) ==
    LET written == write_file(write_file(make_data(fs), "requirements.txt",
                                         requirements_text),
                              ".gitignore", gitignore_text)
    IN  IF stub_file(project_type) = PyNone THEN written
        ELSE write_file(written, stub_file(project_type), stub_text(project_type))

\* lines 130-155, the Scaffold Writer, then main returns
ScaffoldWriter ==
    /\ pc = "scaffold"
    /\ LET r == scaffold_writer(FS, args.project_type) IN
          /\ entries' = r.entries
          /\ content' = r.content
          /\ steps' = r.steps
          /\ pc' = "end"
          /\ outcome' = IF r.err = "" THEN "done" ELSE "error"
          /\ err' = r.err
    /\ UNCHANGED <<name, fpExists, target, nested, cwd, args, pre, cmds,
                   failed, prev, runs>>

Next ==
    \/ ParseArgs
    \/ Dispatch
    \/ SafeDelete
    \/ EnvironmentProvisioner
    \/ VersionControlInitializer
    \/ ScaffoldWriter

Spec == Init /\ [][Next]_vars

SpecName == InitName /\ [][Next]_vars

\* =============================================================== claims
\* Vocabulary of the claims.

DisallowedChars == {",", ".", "/", "\\", "\n", "\t", "?"}

AllowedFolders == {".venv", "data", ".git"}
AllowedFiles == {"solution.py", "solution.ipynb", "requirements.txt",
                 ".gitignore", ".DS_Store"}
AllowList == AllowedFolders \cup AllowedFiles

\* what the create path writes at the top level of the target
CreateProduces == {".venv", "data", ".git", "requirements.txt", ".gitignore",
                   "solution.py", "solution.ipynb"}

InvalidInput == {"argparse.error", "ArgumentTypeError"}

\* the lines of a text: its pieces between newline tokens
RECURSIVE Lines(_)
Lines(text) ==
    IF Len(text) = 0 THEN <<>>
    ELSE IF Len(text) = 1 THEN <<text[1]>>
    ELSE IF text[2] = "\n" THEN <<text[1]>> \o Lines(SubSeq(text, 3, Len(text)))
    ELSE <<text[1], "<no line break>">> \o Lines(Tail(text))

BadName == \E i \in 1..Len(name) : name[i] \in DisallowedChars
CleanupRun == pc # "idle" /\ Truthy(args.cleanup)
CreateRun == pc # "idle" /\ ~Truthy(args.cleanup)
Ended == pc = "end"
TeardownRan == Ended /\ CleanupRun /\ "safe_delete" \in Range(steps)
AfterCompletedCreate ==
    prev.started /\ ~Truthy(prev.args.cleanup) /\ prev.outcome = "done"
Present(ents) == {e \in EntryNames : ents[e] # "none"}

\* C1: a run whose --name holds a disallowed character is rejected by the
\* argument parser: it never gets into main, it ends with an InvalidInput
\* error, and it has changed nothing on the filesystem.
C1_BadNameRejected ==
    (BadName /\ pc # "idle") =>
        /\ Ended
        /\ outcome = "error"
        /\ err \in InvalidInput
        /\ steps = <<>>
        /\ Snapshot = pre

\* C2: safe_delete on an existing directory that holds a top-level entry
\* outside the allow-list ends in an error and the directory still exists.
C2_ExtraEntryKeepsDirectory ==
    (TeardownRan /\ pre.target = "dir" /\ Present(pre.entries) \ AllowList # {}) =>
        /\ outcome = "error"
        /\ target = "dir"

C2_Witness ==
    /\ TeardownRan
    /\ pre.target = "dir"
    /\ Present(pre.entries) \ AllowList # {}
    /\ Present(pre.entries) \cap AllowList # {}
    /\ outcome = "error"

\* C3 as stated: a directory that holds anything the create path did not
\* produce, nested content of the sub-folders included, is not removed.
C3_OnlyOwnScaffoldingRemoved ==
    (TeardownRan /\ pre.target = "dir"
        /\ (pre.nested # {} \/ Present(pre.entries) \ CreateProduces # {})) =>
        target = "dir"

\* C3 as amended: safe_delete removes the directory only if every top-level
\* entry of it is on the allow-list: one of the three folder names as a
\* directory or one of the five file names as a file.
C3_OnlyAllowListedRemoved ==
    (TeardownRan /\ pre.target = "dir" /\ target = "absent") =>
        \A e \in Present(pre.entries) :
            \/ e \in AllowedFolders /\ pre.entries[e] = "dir"
            \/ e \in AllowedFiles /\ pre.entries[e] = "file"

C3_Witness ==
    /\ TeardownRan
    /\ pre.target = "dir"
    /\ target = "absent"
    /\ "data" \in pre.nested

\* C4 as stated: a cleanup run right after a completed create run on the same
\* target ends without error and leaves no project directory.
C4_RoundTrip ==
    (Ended /\ CleanupRun /\ AfterCompletedCreate) =>
        /\ outcome = "done"
        /\ target = "absent"

\* C4 as amended: when nothing existed at file_path/name before the create
\* run, the cleanup run right after it ends without error and leaves the
\* filesystem as it was before the create run.
C4_RoundTripFromAbsent ==
    (Ended /\ CleanupRun /\ AfterCompletedCreate /\ prev.pretarget = "absent") =>
        /\ outcome = "done"
        /\ target = "absent"
        /\ entries = NoEntries
        /\ nested = {}
        /\ content = NoContent

C4_Witness ==
    /\ Ended /\ CleanupRun /\ AfterCompletedCreate
    /\ prev.pretarget = "absent"
    /\ prev.args.git = PyTrue
    /\ prev.args.project_type = "jupyter-notebook"
    /\ pre.entries[".git"] = "dir"
    /\ outcome = "done"

\* C5: after a completed create run the project directory holds exactly one
\* of solution.ipynb and solution.py.
C5_ExactlyOneStub ==
    (Ended /\ CreateRun /\ outcome = "done") =>
        Cardinality(Present(entries) \cap {"solution.ipynb", "solution.py"}) = 1

C7_CleanupOnlyCleanupPath ==
    CleanupRun =>
        /\ pc \in {"main", "safe_delete", "end"}
        /\ steps \in {<<>>, <<"verify_directory">>,
                      <<"verify_directory", "safe_delete">>}
        /\ cmds = <<>>
        /\ cwd = "start"
        /\ Present(entries) \subseteq Present(pre.entries)
        /\ target \in {pre.target, "absent"}
        /\ (Ended /\ ~TargetExists(pre.target)) =>
              /\ outcome = "error"
              /\ err \in InvalidInput
              /\ Snapshot = pre
        /\ (Ended /\ TargetExists(pre.target) /\ fpExists) =>
              "safe_delete" \in Range(steps)

C7_Witness ==
    /\ CleanupRun /\ Ended
    /\ fpExists
    /\ pre.target = "absent"
    /\ steps = <<"verify_directory">>
    /\ err = "ArgumentTypeError"

\* the steps of a completed create run, in order
CreateSteps ==
    (IF pre.target = "absent" THEN <<"mkdir">> ELSE <<>>)
    \o <<"chdir", "venv", "install">>
    \o (IF Truthy(args.git) THEN <<"git">> ELSE <<>>)
    \o <<"data", "requirements.txt", ".gitignore">>
    \o (IF args.project_type \in project_type_choices
        THEN <<stub_file(args.project_type)>> ELSE <<>>)

\* C8: whatever the external commands return, a create run whose target is
\* absent or a directory with no directory in the place of a file it writes
\* goes through the Environment Provisioner, the Version-Control Initializer
\* and the Scaffold Writer in order and ends without error, with data/ created
\* and requirements.txt, .gitignore and the selected stub written.
C8_CommandFailureDoesNotHalt ==
    /\ (CreateRun /\ failed # {} /\ ~Ended) => outcome = "none" /\ err = ""
    /\ (CreateRun /\ Ended /\ fpExists /\ pre.target \in {"absent", "dir"}
          /\ \A f \in {"requirements.txt", ".gitignore",
                       stub_file(args.project_type)} \cap EntryNames :
                pre.entries[f] # "dir") =>
          /\ outcome = "done"
          /\ steps = CreateSteps
          /\ entries["data"] # "none"
          /\ pre.entries["data"] = "none" => entries["data"] = "dir"
          /\ content["requirements.txt"] = requirements_text
          /\ content[".gitignore"] = gitignore_text
          /\ stub_file(args.project_type) # PyNone =>
                content[stub_file(args.project_type)] = stub_text(args.project_type)

C8_Witness ==
    /\ CreateRun /\ Ended
    /\ failed = {"venv", "install", "git"}
    /\ outcome = "done"
    /\ entries["data"] = "dir"
    /\ entries["solution.py"] = "file"

\* C9: in every create run that gets past the Environment Provisioner the
\* environment was created, then the installer upgraded, then the packages
\* installed.
C9_UpgradeThenInstall ==
    (CreateRun /\ "install" \in Range(steps)) =>
        \E i, j, k \in 1..Len(cmds) :
            /\ i < j /\ j < k
            /\ cmds[i] = "python -m venv .venv"
            /\ cmds[j] = "pip install --upgrade pip"
            /\ cmds[k] = "pip install PACKAGES"

\* C10: when safe_delete ends in the error of removing a non-empty directory,
\* no allow-listed entry is left: the directory holds exactly the entries
\* outside the allow-list it held before.
C10_FailedTeardownRemovedAllowListed ==
    (TeardownRan /\ err = "OSError(ENOTEMPTY)") =>
        /\ outcome = "error"
        /\ target = "dir"
        /\ Present(entries) \cap AllowList = {}
        /\ Present(entries) = Present(pre.entries) \ AllowList
        /\ \A e \in Present(entries) : entries[e] = pre.entries[e]
        /\ nested = {}

C10_Witness ==
    /\ TeardownRan
    /\ err = "OSError(ENOTEMPTY)"
    /\ Present(pre.entries) \cap AllowedFolders # {}
    /\ Present(pre.entries) \cap AllowedFiles # {}
    /\ Present(entries) # {}

====
